---- MODULE Spec2Model ----
(***************************************************************************)
(* Object extraction operators of ilastik, the chaingraph tracking         *)
(* workflow and the import of the gurobi wrapper.                          *)
(*                                                                         *)
(* Nine specifications:                                                    *)
(*   Spec       the OpObjectExtraction pipeline with its input content     *)
(*              fixed: requests on the region features, on their cache     *)
(*              and on the object-center image, and dirty notifications;   *)
(*   SpecCache  OpCachedRegionFeatures while its inputs change: input      *)
(*              mutations, dirty notifications and requests;               *)
(*   SpecCenter OpObjectCenterImage on its own, its RegionCenters input    *)
(*              supplied by the environment;                               *)
(*   SpecRetry  OpCachedRegionFeatures over slabs whose request may raise; *)
(*   SpecConc   OpCachedRegionFeatures under requests of two callers that  *)
(*              overlap in time;                                           *)
(*   SpecUnits  setupOutputs and propagateDirty of the single operators,   *)
(*              over axis orders and shapes;                               *)
(*   SpecComposite  the feature list of OpObjectExtraction and execute     *)
(*              called directly on the composite operators;                *)
(*   SpecWorkflow  handleAppletStateUpdateRequested of the chaingraph      *)
(*              tracking workflow, over the states of its applets;         *)
(*   SpecImport the body of counting/cwrapper/gurobi/__init__.py, one      *)
(*              LoadLibrary call at a time.                                *)
(*                                                                         *)
(* Coordinates and indices are 0-based as in the source; TLA+ sequences    *)
(* are 1-based, so position i of a vector holds axis number i.             *)
(***************************************************************************)
EXTENDS Integers, Sequences, FiniteSets, TLC

\* ---------------------------------------------------------------- bounds
MaxT == 2          \* largest time extent of the input images
MaxC == 2          \* largest channel extent of the input images
MaxCells == 4      \* most (t,c) slabs of the input images
DimX == 3          \* spatial extents of the input images
DimY == 3
DimZ == 3
MaxListLen == 2    \* longest time-index list requested
MaxMutations == 1  \* input mutations per behaviour
MaxRows == 2       \* most rows of a RegionCenter table fed to the center image
MaxConfig == 2     \* longest list of configured feature names
MaxLanes == 2      \* most image lanes of the tracking workflow

VARIABLES
    shapeT,        \* extent of the t axis of RawImage / LabelImage
    shapeC,        \* extent of the c axis
    rawImage,      \* content of RawImage, per (t,c) slab
    labelImage,    \* content of the label image, per (t,c) slab
    cache,         \* OpArrayCache block store: (t,c) -> <<>> or <<record>>
    pending,       \* cells whose input changed and no setDirty came yet
    nMut,          \* number of input mutations so far
    last,          \* the operation just completed and what it produced
    centersIn,     \* SpecCenter: what RegionCenters supplies
    lastCenter,    \* SpecCenter: the request just completed
    meta,          \* SpecUnits: metadata of the input and output slots
    unit,          \* SpecUnits: the operator method just called
    reqs,          \* SpecConc: the requests on the cache, by caller
    inflight,      \* SpecConc: upstream computations in progress
    epoch,         \* SpecConc: per cell, the dirty notifications processed
    wf,            \* SpecWorkflow: what the applets of the workflow report
    shell,         \* SpecWorkflow: what the workflow has told the shell
    gurobi         \* SpecImport: the import of the gurobi wrapper module

vars == <<shapeT, shapeC, rawImage, labelImage, cache, pending, nMut, last,
          centersIn, lastCenter, meta, unit, reqs, inflight, epoch,
          wf, shell, gurobi>>

unitVars == <<meta, unit>>

concVars == <<reqs, inflight, epoch>>

appVars == <<wf, shell, gurobi>>

pipeVars == <<shapeT, shapeC, rawImage, labelImage, cache, pending, nMut, last>>

\* ------------------------------------------------------------- utilities
Range(a, b) == a .. (b - 1)                 \* python range(a, b) as a set

RECURSIVE RangeSeq(_, _)
RangeSeq(a, b) == IF a >= b THEN <<>> ELSE <<a>> \o RangeSeq(a + 1, b)

IndexOf(s, e) == CHOOSE i \in 1..Len(s) : s[i] = e

SeqsUpTo(S, n) == UNION { [1..k -> S] : k \in 0..n }

Intervals(n) == { <<a, b>> \in (0..n) \X (0..n) : a < b }

ImageAxes == <<"t", "x", "y", "z", "c">>    \* axis order of the images
FeatAxes == <<"t", "c">>                    \* axis order of the feature array

Cells == Range(0, shapeT) \X Range(0, shapeC)

\* Positions of the t and c axes.
ImageT == IndexOf(ImageAxes, "t")
ImageC == IndexOf(ImageAxes, "c")
FeatT == IndexOf(FeatAxes, "t")
FeatC == IndexOf(FeatAxes, "c")

\* --------------------------------------------------- region features (3d)
\* Content of a slab of RawImage whose request raises.
Unreadable == 2

\* What stands for an element whose computation raised.
Exception == [raised |-> TRUE]

IsException(v) == "raised" \in DOMAIN v

\* The entries of vec whose axis is not spatial, in axis order.
RECURSIVE DropSpatial(_, _)
DropSpatial(axes, vec) ==
    IF axes = <<>> THEN <<>>
    ELSE (IF Head(axes) \in {"x", "y", "z"} THEN <<>> ELSE <<Head(vec)>>)
         \o DropSpatial(Tail(axes), Tail(vec))

\* Slot metadata: the axis tags and the extent of each axis.
AxisKeys(m) == { m.axes[i] : i \in 1..Len(m.axes) }

\* meta.getTaggedShape()[a]
TaggedExtent(m, a) == m.shape[IndexOf(m.axes, a)]

Raised(what) == [ok |-> FALSE, cause |-> what, meta |-> <<>>]

\* OpRegionFeatures3d.setupOutputs: the asserts, then the metadata of
\* Output, the spatial axes removed.
Features3dSetupOutputs_NoTagCheck(raw, label) ==
    IF label.shape # raw.shape THEN Raised("AssertionError")
    ELSE IF "t" \in AxisKeys(label) /\ TaggedExtent(label, "t") # 1
         THEN Raised("AssertionError")
    ELSE IF "c" \in AxisKeys(label) /\ TaggedExtent(label, "c") # 1
         THEN Raised("AssertionError")
    ELSE IF AxisKeys(label) \ {"t", "c"} # {"x", "y", "z"}
         THEN Raised("AssertionError")
    ELSE [ok |-> TRUE, cause |-> "",
          meta |-> [axes  |-> DropSpatial(label.axes, label.axes),
                    shape |-> DropSpatial(label.axes, label.shape)]]

Features3dSetupOutputs(raw, label) ==
    IF label.shape # raw.shape THEN Raised("AssertionError")
    ELSE IF label.axes # raw.axes THEN Raised("AssertionError")
    ELSE IF "t" \in AxisKeys(label) /\ TaggedExtent(label, "t") # 1
         THEN Raised("AssertionError")
    ELSE IF "c" \in AxisKeys(label) /\ TaggedExtent(label, "c") # 1
         THEN Raised("AssertionError")
    ELSE IF AxisKeys(label) \ {"t", "c"} # {"x", "y", "z"}
         THEN Raised("AssertionError")
    ELSE [ok |-> TRUE, cause |-> "",
          meta |-> [axes  |-> DropSpatial(label.axes, label.axes),
                    shape |-> DropSpatial(label.axes, label.shape)]]

\* Label volumes of one (t,c) slab, by content number (0 or 1): the
\* centroids of the objects it holds, in half-voxel units (3 is 1.5).
LabelObjects(l) ==
    IF l = 0 THEN << <<2, 2, 2>> >>
    ELSE << <<3, 2, 2>>, <<0, 4, 1>> >>

\* vigra.analysis.extractRegionFeatures(image, labels, ignoreLabel=0): one
\* row per label, row 0 is the ignored label 0.
_extract(image, labels) ==
    [RegionCenter |-> << <<0, 0, 0>> >> \o LabelObjects(labels),
     Intensity    |-> image]

\* An image is held per (t,c) slab; the volumes of OpRegionFeatures3d
\* have one slab, <<0, 0>>, and its Output has one element.
\* OpRegionFeatures3d.execute: the whole of both volumes is read whatever
\* the roi, and the accumulator is the one element of the result.
\* A request on RawVolume may raise (content Unreadable); the exception
\* leaves execute, and the element cannot be had.
Features3dExecute(RawVolume, LabelVolume) ==
    LET rawVolume == RawVolume.at[<<0, 0>>]
        labelVolume == LabelVolume.at[<<0, 0>>]
    IN  [shape |-> <<1, 1>>,
         at |-> [cell \in {<<0, 0>>} |->
                   IF rawVolume = Unreadable THEN Exception
                   ELSE _extract(rawVolume, labelVolume)]]

\* OpRegionFeatures3d.propagateDirty for a dirty box on a volume whose axes
\* are axes: the roi set dirty on Output.
Features3dPropagateDirty_StartTwice(axes, start, stop) ==
    [start |-> DropSpatial(axes, start),
     stop  |-> DropSpatial(axes, start)]

Features3dPropagateDirty_KeepZ(axes, start, stop) ==
    [start |-> DropSpatial([i \in 1..Len(axes) |->
                              IF axes[i] = "z" THEN "c" ELSE axes[i]], start),
     stop  |-> DropSpatial([i \in 1..Len(axes) |->
                              IF axes[i] = "z" THEN "c" ELSE axes[i]], stop)]

Features3dPropagateDirty(axes, start, stop) ==
    [start |-> DropSpatial(axes, start),
     stop  |-> DropSpatial(axes, stop)]

\* ------------------------------------------- OpRegionFeatures (structural)
\* Arrays over the t and c axes are records of a shape and the elements
\* (at), indexed from 0.
AsArray(image) == [shape |-> <<shapeT, shapeC>>, at |-> image]

\* OpMultiArraySlicer2: the slices of an array along an axis (1 is t, 2 is
\* c), in index order; a slice keeps the axis, with extent 1.
Slicer(a, axis) ==
    LET sh == [a.shape EXCEPT ![axis] = 1]
        dom == Range(0, sh[1]) \X Range(0, sh[2])
    IN  [k \in 1..a.shape[axis] |->
            [shape |-> sh,
             at |-> [idx \in dom |->
                       a.at[[idx EXCEPT ![axis] = k - 1]]]]]

\* OpMultiArrayStacker: the arrays, each of extent 1 along the axis, put
\* one after the other along it.
Stacker(images, axis) ==
    LET n == Len(images)
        sh == [images[1].shape EXCEPT ![axis] = n]
    IN  [shape |-> sh,
         at |-> [idx \in Range(0, sh[1]) \X Range(0, sh[2]) |->
                   images[idx[axis] + 1].at[[idx EXCEPT ![axis] = 0]]]]

\* OperatorWrapper: one inner operator per subslot of the level-1 input.
WrappedSlicer(Input, axis) ==
    [i \in DOMAIN Input |-> Slicer(Input[i], axis)]

WrappedStacker(Images, axis) ==
    [i \in DOMAIN Images |-> Stacker(Images[i], axis)]

\* OperatorWrapper of OpWrappedRegionFeatures3d over the level-2 slots.
WrappedRegionFeatures3d(RawVolume, LabelVolume) ==
    [i \in DOMAIN RawVolume |->
        [j \in DOMAIN RawVolume[i] |->
            Features3dExecute(RawVolume[i][j], LabelVolume[i][j])]]

\* The operators of OpRegionFeatures, wired as in __init__.
opRawTimeSlicer == Slicer(AsArray(rawImage), FeatT)

opRawChannelSlicer == WrappedSlicer(opRawTimeSlicer, FeatC)

opLabelTimeSlicer == Slicer(AsArray(labelImage), FeatT)

opLabelChannelSlicer == WrappedSlicer(opLabelTimeSlicer, FeatC)

opRegionFeatures3dBlocks_RawTwice ==
    WrappedRegionFeatures3d(opRawChannelSlicer, opRawChannelSlicer)

opRegionFeatures3dBlocks ==
    WrappedRegionFeatures3d(opRawChannelSlicer, opLabelChannelSlicer)

opChannelStacker == WrappedStacker(opRegionFeatures3dBlocks, FeatC)

opTimeStacker == Stacker(opChannelStacker, FeatT)

\* The dirty roi the 3d operator of cell (t,c) receives for a dirty box on
\* RawImage / LabelImage: each slicer hands its slice the box with the
\* sliced axis reduced to [0, 1).
SlicedDirty(start, stop) ==
    [start |-> [i \in 1..Len(start) |->
                   IF ImageAxes[i] \in {"t", "c"} THEN 0 ELSE start[i]],
     stop  |-> [i \in 1..Len(stop) |->
                   IF ImageAxes[i] \in {"t", "c"} THEN 1 ELSE stop[i]]]

\* The stackers move the dirty roi of cell (t,c) to its place in Output.
StackedDirty(roi, t, c) ==
    LET off == [i \in 1..Len(FeatAxes) |-> IF FeatAxes[i] = "t" THEN t ELSE c]
    IN  [start |-> [i \in 1..Len(roi.start) |-> roi.start[i] + off[i]],
         stop  |-> [i \in 1..Len(roi.stop) |-> roi.stop[i] + off[i]]]

\* Cells of the images that a box on the images touches.
TouchedCells(start, stop) ==
    { cell \in Cells :
        /\ start[ImageT] <= cell[1] /\ cell[1] < stop[ImageT]
        /\ start[ImageC] <= cell[2] /\ cell[2] < stop[ImageC] }

\* The boxes set dirty on OpRegionFeatures.Output for a dirty box on an
\* input image, in the order the slices are visited.
RegionFeaturesDirty(start, stop) ==
    LET ts == RangeSeq(start[ImageT], stop[ImageT])
        cs == RangeSeq(start[ImageC], stop[ImageC])
        sl == SlicedDirty(start, stop)
        d3 == Features3dPropagateDirty(ImageAxes, sl.start, sl.stop)
    IN  [k \in 1..(Len(ts) * Len(cs)) |->
            StackedDirty(d3, ts[((k - 1) \div Len(cs)) + 1],
                             cs[((k - 1) % Len(cs)) + 1])]

\* ------------------------------------------------ OpCachedRegionFeatures
FeatShape == <<shapeT, shapeC>>

\* Metadata of the images of the pipeline.
PipeMeta == [axes |-> ImageAxes, shape |-> <<shapeT, DimX, DimY, DimZ, shapeC>>]

\* Shape of OpRegionFeatures.Output: the extents of the axes that are not
\* spatial.
RegionFeaturesOutputShape(raw) == DropSpatial(raw.axes, raw.shape)

\* OpCachedRegionFeatures.setupOutputs: the asserts, then the block shape
\* handed to the cache (meta), one output element per block.
CachedSetupOutputs_OneBlock(raw, label) ==
    IF label.shape # raw.shape THEN Raised("AssertionError")
    ELSE IF label.axes # raw.axes THEN Raised("AssertionError")
    ELSE [ok |-> TRUE, cause |-> "",
          meta |-> RegionFeaturesOutputShape(raw)]

CachedSetupOutputs(raw, label) ==
    IF label.shape # raw.shape THEN Raised("AssertionError")
    ELSE IF label.axes # raw.axes THEN Raised("AssertionError")
    ELSE [ok |-> TRUE, cause |-> "",
          meta |-> [i \in 1..Len(RegionFeaturesOutputShape(raw)) |-> 1]]

\* The block shape of the cache of the pipeline.
blockshape == CachedSetupOutputs(PipeMeta, PipeMeta).meta

WellFormedBox(start, stop) ==
    \A i \in 1..Len(start) : 0 <= start[i] /\ start[i] <= stop[i]
                             /\ stop[i] <= FeatShape[i]

\* Block a cell lies in, for blocks of the given shape.
BlockIn(shape, cell) == [i \in 1..Len(cell) |-> cell[i] \div shape[i]]

InBox(cell, start, stop) ==
    \A i \in 1..Len(start) : start[i] <= cell[i] /\ cell[i] < stop[i]

BoxCells(start, stop) == { cell \in Cells : InBox(cell, start, stop) }

\* Cells stored in a block that overlaps the box.
BoxBlockCells(start, stop) ==
    LET shape == blockshape
        blocks == { BlockIn(shape, d) : d \in BoxCells(start, stop) }
    IN  { cell \in Cells : BlockIn(shape, cell) \in blocks }

\* Block cache, request: stored value if valid, else computed, stored and
\* marked valid.
CacheFill(c, start, stop) ==
    LET Input == opTimeStacker
        fetched == { <<cell, Input.at[cell]>> :
                       cell \in { d \in Cells : InBox(d, start, stop) /\ c[d] = <<>> } }
    IN  [cell \in Cells |->
            IF InBox(cell, start, stop) /\ c[cell] = <<>>
            THEN <<(CHOOSE p \in fetched : p[1] = cell)[2]>>
            ELSE c[cell]]

\* The array a request for the box returns, indexed from 0.
CacheArray(c, start, stop) ==
    [shape |-> [i \in 1..Len(start) |-> stop[i] - start[i]],
     at    |-> [idx \in Range(0, stop[1] - start[1]) \X Range(0, stop[2] - start[2])
                  |-> c[<<idx[1] + start[1], idx[2] + start[2]>>][1]]]

\* Block cache, dirty: every block overlapping the box is dropped.
CacheDirty(c, start, stop) ==
    LET dropped == BoxBlockCells(start, stop)
    IN  [cell \in Cells |-> IF cell \in dropped THEN <<>> ELSE c[cell]]

\* A request on OpCachedRegionFeatures.Output.  A box that is not well
\* formed (a negative extent, or out of the array) is refused; an empty
\* one is answered with an empty array.
\* When the upstream computation of a cell raises, the request fails and
\* stores nothing.
CachedExecute_StoreFailure(c, start, stop) ==
    IF ~WellFormedBox(start, stop)
    THEN [ok |-> FALSE, cache |-> c, array |-> <<>>]
    ELSE LET filled == CacheFill(c, start, stop)
         IN  IF \E cell \in BoxCells(start, stop) : IsException(filled[cell][1])
             THEN [ok |-> FALSE, cache |-> filled, array |-> <<>>]
             ELSE [ok |-> TRUE, cache |-> filled,
                   array |-> CacheArray(filled, start, stop)]

CachedExecute(c, start, stop) ==
    IF ~WellFormedBox(start, stop)
    THEN [ok |-> FALSE, cache |-> c, array |-> <<>>]
    ELSE LET filled == CacheFill(c, start, stop)
         IN  IF \E cell \in BoxCells(start, stop) : IsException(filled[cell][1])
             THEN [ok |-> FALSE, cache |-> c, array |-> <<>>]
             ELSE [ok |-> TRUE, cache |-> filled,
                   array |-> CacheArray(filled, start, stop)]

\* -------------------------------------------------- OpAdaptTimeListRoi
\* numpy.split(a, n, axis) for a 2-d array: n pieces of equal width.
Split(a, n, axis) ==
    LET w == a.shape[axis] \div n
        sh == [a.shape EXCEPT ![axis] = w]
    IN  [k \in 1..n |->
            [shape |-> sh,
             at |-> [idx \in Range(0, sh[1]) \X Range(0, sh[2]) |->
                       a.at[[idx EXCEPT ![axis] = idx[axis] + (k - 1) * w]]]]]

ArraySize(a) == a.shape[1] * a.shape[2]

\* The box execute asks its Input for, for time index t.
AdaptTimeListRoiBox(t) ==
    LET taggedShape == [FeatShape EXCEPT ![FeatT] = 1]
        timeIndex == FeatT
        start0 == [i \in 1..Len(taggedShape) |-> 0]
    IN  [start |-> [start0 EXCEPT ![timeIndex] = t],
         stop  |-> [taggedShape EXCEPT ![timeIndex] = 1]]

\* One pass of the loop over the requested time indices.
RECURSIVE AdaptLoop(_, _)
AdaptLoop(roi, st) ==
    IF roi = <<>> \/ ~st.ok THEN st
    ELSE
      LET t == Head(roi)
          numChannels == FeatShape[FeatC]
          channelIndex == FeatC
          box == AdaptTimeListRoiBox(t)
          r == CachedExecute(st.cache, box.start, box.stop)
          issued == Append(st.issued, [t |-> t, start |-> box.start, stop |-> box.stop])
      IN  IF ~r.ok
          THEN [st EXCEPT !.ok = FALSE, !.issued = issued, !.cause = "Input"]
          ELSE
            LET channelResults == Split(r.array, numChannels, channelIndex)
            IN  IF \E k \in 1..numChannels : ArraySize(channelResults[k]) = 0
                THEN [st EXCEPT !.ok = FALSE, !.issued = issued,
                                !.cache = r.cache, !.cause = "IndexError"]
                ELSE AdaptLoop(Tail(roi),
                       [ok |-> TRUE, cause |-> "",
                        cache |-> r.cache,
                        issued |-> issued,
                        result |-> [k \in (DOMAIN st.result) \cup {t} |->
                                      IF k = t
                                      THEN [j \in 1..numChannels |->
                                              channelResults[j].at[<<0, 0>>]]
                                      ELSE st.result[k]]])

\* OpAdaptTimeListRoi.execute: an empty list means every time index.
AdaptTimeListRoiExecute(c, roi) ==
    LET taggedShape == FeatShape
        roi2 == IF Len(roi) = 0
                THEN RangeSeq(0, taggedShape[FeatT])
                ELSE roi
    IN  AdaptLoop(roi2,
                  [ok |-> TRUE, cause |-> "", cache |-> c,
                   issued |-> <<>>, result |-> <<>>])

\* OpAdaptTimeListRoi.propagateDirty for a dirty box on Input, whose axes
\* are axes: the list set dirty on Output.
AdaptTimeListRoiPropagateDirty_ChannelAxis(axes, start, stop) ==
    LET timeIndex == IndexOf(axes, "c")
    IN  RangeSeq(start[timeIndex], stop[timeIndex])

AdaptTimeListRoiPropagateDirty_FirstAxis(axes, start, stop) ==
    LET timeIndex == 1
    IN  RangeSeq(start[timeIndex], stop[timeIndex])

AdaptTimeListRoiPropagateDirty(axes, start, stop) ==
    LET timeIndex == IndexOf(axes, "t")
    IN  RangeSeq(start[timeIndex], stop[timeIndex])

\* -------------------------------------------------- OpObjectCenterImage
ImageShape == <<shapeT, DimX, DimY, DimZ, shapeC>>

\* numpy.asarray(centers, dtype=numpy.uint32) on one coordinate held in
\* half-voxel units: the fraction is cut off.  Centroids are not negative
\* and lie inside the volume, far below 2^32, so nothing wraps.
AsUint32(h) == h \div 2

AsUint32Table(table) ==
    [r \in 1..Len(table) |-> [k \in 1..Len(table[r]) |-> AsUint32(table[r][k])]]

\* OpObjectCenterImage.__contained_in_subregion
contained_in_subregion(roi, coords) ==
    \A i \in 1..Len(coords) :
        roi.start[i] <= coords[i] /\ coords[i] < roi.stop[i]

\* OpObjectCenterImage.__make_key
make_key(roi, coords) ==
    [i \in 1..Len(roi.start) |-> coords[i] - roi.start[i]]

\* The coordinates tried for one center: c = [t, x, y, z, ch] with offset
\* added at position dim, for dim in (1, 2, 3) and offset in (-1, 0, 1).
\* (Position dim of the python list is position dim + 1 here.)
CrossCoords(t, center, ch) ==
    { [ <<t, center[1], center[2], center[3], ch>> EXCEPT ![dim + 1] = @ + offset ]
        : dim \in {1, 2, 3}, offset \in {-1, 0, 1} }

\* Keys set to 255 for the rows of one table.
PaintedKeys(roi, t, ch, rows) ==
    { make_key(roi, c) :
        c \in { d \in UNION { CrossCoords(t, rows[r], ch) : r \in 1..Len(rows) } :
                  contained_in_subregion(roi, d) } }

\* if centers.size: centers = centers[1:,:]
\* The slice takes two indices; the array made of an empty list has one
\* axis only and slicing it so raises IndexError (ok = FALSE).
DropBackgroundRow_NoSizeTest(centers) ==
    IF Len(centers) > 0
    THEN [ok |-> TRUE, rows |-> Tail(centers)]
    ELSE [ok |-> FALSE, rows |-> centers]

DropBackgroundRow_KeepRow0(centers) == [ok |-> TRUE, rows |-> centers]

DropBackgroundRow(centers) ==
    IF Len(centers) > 0
    THEN [ok |-> TRUE, rows |-> Tail(centers)]
    ELSE [ok |-> TRUE, rows |-> centers]

\* self.RegionCenters([t]).wait(): src.wired asks the time-list adapter,
\* otherwise the slot is fed by src.data, a list of records per time index.
RegionCentersRequest(c, t, src) ==
    IF src.wired
    THEN AdaptTimeListRoiExecute(c, <<t>>)
    ELSE [ok |-> TRUE, cause |-> "", cache |-> c, issued |-> <<>>,
          result |-> [k \in {t} |-> src.data[t + 1]]]

\* The loop over the channels of the roi for one time index.  The name
\* centers holds the mapping returned by RegionCenters only in the first
\* pass: the pass rebinds it to the coordinate array, and indexing that
\* array with [t][ch]['RegionCenter'] raises IndexError.
RECURSIVE CenterChannelLoop(_, _, _, _, _)
CenterChannelLoop(chs, t, roi, centers, st) ==
    IF chs = <<>> \/ ~st.ok THEN st
    ELSE
      LET ch == Head(chs)
      IN  IF ~centers.isDict \/ ch + 1 > Len(centers.dict[t])
          THEN [st EXCEPT !.ok = FALSE, !.cause = "IndexError"]
          ELSE
            LET table == AsUint32Table(centers.dict[t][ch + 1].RegionCenter)
                sliced == DropBackgroundRow(table)
                keys == PaintedKeys(roi, t, ch, sliced.rows)
            IN  IF ~sliced.ok
                THEN [st EXCEPT !.ok = FALSE, !.cause = "IndexError"]
                ELSE CenterChannelLoop(Tail(chs), t, roi,
                       [isDict |-> FALSE, dict |-> <<>>],
                       [st EXCEPT !.result = @ \cup keys, !.junk = @ \ keys])

\* The loop over the time indices of the roi.
RECURSIVE CenterTimeLoop(_, _, _, _)
CenterTimeLoop(ts, roi, src, st) ==
    IF ts = <<>> \/ ~st.ok THEN st
    ELSE
      LET t == Head(ts)
          r == RegionCentersRequest(st.cache, t, src)
      IN  IF ~r.ok
          THEN [st EXCEPT !.ok = FALSE, !.cause = "RegionCenters", !.cache = r.cache]
          ELSE CenterTimeLoop(Tail(ts), roi, src,
                 CenterChannelLoop(
                    RangeSeq(roi.start[Len(roi.start)], roi.stop[Len(roi.stop)]),
                    t, roi,
                    [isDict |-> TRUE, dict |-> r.result],
                    [st EXCEPT !.cache = r.cache]))

\* result[:] = 0
ZeroResult_Skipped(junk) == junk

ZeroResult(junk) == {}

\* OpObjectCenterImage.execute.  result: the keys holding 255; junk: the
\* keys still holding what the destination buffer held before the call.
ObjectCenterImageExecute(c, roi, src, junk) ==
    CenterTimeLoop(RangeSeq(roi.start[1], roi.stop[1]), roi, src,
                   [ok |-> TRUE, cause |-> "", cache |-> c,
                    result |-> {}, junk |-> ZeroResult(junk)])

\* ---------------------------------------------------------------- inputs
Slots == {"RawImage", "LabelImage"}

\* Boxes over the spatial axes used for dirty regions.
SpatialBoxes ==
    { [start |-> <<0, 0, 0>>, stop |-> <<DimX, DimY, DimZ>>],
      [start |-> <<1, 0, 1>>, stop |-> <<2, 2, DimZ>>] }

\* The spatial box of the image requests made on the pipeline.
RequestSpatialBoxes ==
    { [start |-> <<0, 1, 0>>, stop |-> <<DimX, DimY, 2>>] }

\* The whole of an axis of extent n, and the axis without its last or its
\* first index.
Clips(n) == { <<0, n>>, <<0, n - 1>>, <<1, n>> }

\* Spatial boxes of the requests made on OpObjectCenterImage alone.
ClippedSpatialBoxes ==
    { [start |-> <<x[1], y[1], z[1]>>, stop |-> <<x[2], y[2], z[2]>>] :
        x \in Clips(DimX), y \in Clips(DimY), z \in Clips(DimZ) }

\* Object centers (half-voxel units) and the RegionCenter tables made of
\* them; row 0 of a table is the row of label 0.
CenterPoints == { <<3, 2, 3>>, <<1, 4, 0>> }

Tables == SeqsUpTo(CenterPoints, MaxRows)

ImageBox(ti, sp, ci) ==
    [start |-> <<ti[1], sp.start[1], sp.start[2], sp.start[3], ci[1]>>,
     stop  |-> <<ti[2], sp.stop[1], sp.stop[2], sp.stop[3], ci[2]>>]

\* Non-empty boxes inside the images.
PipeImageBoxes ==
    { ImageBox(ti, sp, ci) :
        ti \in Intervals(shapeT), sp \in SpatialBoxes, ci \in Intervals(shapeC) }

RequestImageBoxes ==
    { ImageBox(ti, sp, ci) :
        ti \in Intervals(shapeT), sp \in RequestSpatialBoxes, ci \in Intervals(shapeC) }

CenterImageBoxes ==
    { ImageBox(ti, sp, ci) :
        ti \in Intervals(shapeT), sp \in ClippedSpatialBoxes, ci \in Intervals(shapeC) }

FeatBoxes ==
    { [start |-> <<ti[1], ci[1]>>, stop |-> <<ti[2], ci[2]>>] :
        ti \in Intervals(shapeT), ci \in Intervals(shapeC) }

\* What the destination buffer may hold before execute runs: nothing, or
\* something at its first element.
JunkChoices(roi) ==
    { {}, {[i \in 1..Len(roi.start) |-> 0]} }

NoOp == [op |-> "none", roi |-> <<>>, ok |-> TRUE, cause |-> "",
         result |-> <<>>, issued |-> <<>>, dirty |-> {}]

\* ------------------------------------------------------------------ Init
Init ==
    /\ shapeT \in 1..MaxT
    /\ shapeC \in 1..MaxC
    /\ shapeT * shapeC <= MaxCells
    /\ rawImage = [cell \in Cells |-> 0]
    /\ labelImage \in { [cell \in Cells |-> 0],
                        [cell \in Cells |-> (cell[1] + cell[2]) % 2] }
    /\ cache = [cell \in Cells |-> <<>>]
    /\ pending = {}
    /\ nMut = 0
    /\ last = NoOp
    /\ centersIn = <<>>
    /\ lastCenter = NoOp
    /\ meta = <<>>
    /\ unit = NoOp
    /\ reqs = <<>>
    /\ inflight = {}
    /\ epoch = <<>>
    /\ wf = <<>>
    /\ shell = <<>>
    /\ gurobi = <<>>

\* --------------------------------------------------------------- actions
\* A request on OpObjectExtraction.RegionFeatures with a time-index list.
RequestRegionFeatures ==
    \E roi \in SeqsUpTo(Range(0, shapeT), MaxListLen) :
        LET r == AdaptTimeListRoiExecute(cache, roi)
        IN  /\ cache' = r.cache
            /\ last' = [op |-> "features", roi |-> roi, ok |-> r.ok,
                        cause |-> r.cause,
                        result |-> IF r.ok THEN r.result ELSE <<>>,
                        issued |-> r.issued, dirty |-> {}]
            /\ UNCHANGED <<shapeT, shapeC, rawImage, labelImage, pending, nMut,
                           centersIn, lastCenter, unitVars, concVars, appVars>>

\* A request on OpCachedRegionFeatures.Output with a box of cells.
RequestCachedFeatures ==
    \E box \in FeatBoxes :
        LET r == CachedExecute(cache, box.start, box.stop)
        IN  /\ cache' = r.cache
            /\ last' = [op |-> "cached", roi |-> box, ok |-> r.ok,
                        cause |-> IF r.ok THEN "" ELSE "Input",
                        result |-> r.array,
                        issued |-> <<>>, dirty |-> {}]
            /\ UNCHANGED <<shapeT, shapeC, rawImage, labelImage, pending, nMut,
                           centersIn, lastCenter, unitVars, concVars, appVars>>

\* A request on OpObjectExtraction.ObjectCenterImage with a box.
RequestObjectCenterImage ==
    \E roi \in RequestImageBoxes :
      \E junk \in JunkChoices(roi) :
        LET r == ObjectCenterImageExecute(cache, roi,
                     [wired |-> TRUE, data |-> <<>>], junk)
        IN  /\ cache' = r.cache
            /\ last' = [op |-> "image", roi |-> roi, ok |-> r.ok,
                        cause |-> r.cause,
                        result |-> IF r.ok
                                   THEN [result |-> r.result, junk |-> r.junk]
                                   ELSE <<>>,
                        issued |-> <<>>, dirty |-> {}]
            /\ UNCHANGED <<shapeT, shapeC, rawImage, labelImage, pending, nMut,
                           centersIn, lastCenter, unitVars, concVars, appVars>>

\* The content of one slab of an input image changes; the notification
\* follows later (SetDirty).
MutateInput ==
    /\ nMut < MaxMutations
    /\ \E slot \in Slots, cell \in Cells :
        /\ rawImage' = IF slot = "RawImage"
                       THEN [rawImage EXCEPT ![cell] = 1 - @] ELSE rawImage
        /\ labelImage' = IF slot = "LabelImage"
                         THEN [labelImage EXCEPT ![cell] = 1 - @] ELSE labelImage
        /\ pending' = pending \cup {cell}
        /\ nMut' = nMut + 1
        /\ last' = [NoOp EXCEPT !.op = "mutate"]
        /\ UNCHANGED <<shapeT, shapeC, cache, centersIn, lastCenter,
                       unitVars, concVars, appVars>>

\* Cache after the dirty boxes of ds, in order.
RECURSIVE CacheDirtyAll(_, _)
CacheDirtyAll(c, ds) ==
    IF ds = <<>> THEN c
    ELSE CacheDirtyAll(CacheDirty(c, Head(ds).start, Head(ds).stop), Tail(ds))

\* The time indices set dirty on RegionFeatures for the dirty boxes ds
\* that leave the cache.
DirtyTimes(ds) ==
    UNION { LET l == AdaptTimeListRoiPropagateDirty(FeatAxes, ds[k].start,
                                                    ds[k].stop)
            IN  { l[j] : j \in 1..Len(l) }
            : k \in 1..Len(ds) }

\* A dirty notification for a box on RawImage or on the label image, down
\* to the RegionFeatures output.  Both slots are sliced the same way and
\* OpRegionFeatures3d.propagateDirty does not look at the slot.
SetDirtyOn(boxes) ==
    \E roi \in boxes :
        LET ds == RegionFeaturesDirty(roi.start, roi.stop)
        IN  /\ cache' = CacheDirtyAll(cache, ds)
            /\ pending' = pending \ TouchedCells(roi.start, roi.stop)
            /\ last' = [NoOp EXCEPT !.op = "dirty", !.roi = roi,
                                    !.issued = ds, !.dirty = DirtyTimes(ds)]
            /\ UNCHANGED <<shapeT, shapeC, rawImage, labelImage, nMut,
                           centersIn, lastCenter, unitVars, concVars, appVars>>

SetDirty == SetDirtyOn(PipeImageBoxes)

\* Notifications for boxes that span whole slabs.
SetDirtySlabs ==
    SetDirtyOn({ b \in PipeImageBoxes :
                   \A i \in 1..Len(ImageAxes) :
                      ImageAxes[i] \in {"x", "y", "z"} =>
                         b.start[i] = 0 /\ b.stop[i] = ImageShape[i] })

\* Requests and notifications, input content held fixed.
Next ==
    \/ RequestRegionFeatures
    \/ RequestCachedFeatures
    \/ RequestObjectCenterImage
    \/ SetDirty

Spec == Init /\ [][Next]_vars

\* Input mutations, notifications and requests on the cached features.
InitCache ==
    /\ Init
    /\ labelImage = [cell \in Cells |-> 0]

NextCache ==
    \/ MutateInput
    \/ SetDirtySlabs
    \/ RequestCachedFeatures

SpecCache == InitCache /\ [][NextCache]_vars

\* ------------------------------------- requests on inputs that may raise
\* The box of an image that is the slab of one cell.
SlabBox(cell) ==
    ImageBox(<<cell[1], cell[1] + 1>>,
             [start |-> <<0, 0, 0>>, stop |-> <<DimX, DimY, DimZ>>],
             <<cell[2], cell[2] + 1>>)

\* Some slabs of RawImage cannot be read.
InitRetry ==
    /\ shapeT \in 1..MaxT
    /\ shapeC \in 1..MaxC
    /\ shapeT * shapeC <= MaxCells
    /\ rawImage \in [Cells -> {0, Unreadable}]
    /\ labelImage = [cell \in Cells |-> (cell[1] + cell[2]) % 2]
    /\ cache = [cell \in Cells |-> <<>>]
    /\ pending = {}
    /\ nMut = 0
    /\ last = NoOp
    /\ centersIn = <<>>
    /\ lastCenter = NoOp
    /\ meta = <<>>
    /\ unit = NoOp
    /\ reqs = <<>>
    /\ inflight = {}
    /\ epoch = <<>>
    /\ wf = <<>>
    /\ shell = <<>>
    /\ gurobi = <<>>

\* A slab of RawImage becomes readable, or stops being so, and the
\* source of RawImage sets the slab dirty.
ToggleReadable ==
    \E cell \in Cells :
        LET box == SlabBox(cell)
            ds == RegionFeaturesDirty(box.start, box.stop)
        IN  /\ rawImage' = [rawImage EXCEPT ![cell] = Unreadable - @]
            /\ cache' = CacheDirtyAll(cache, ds)
            /\ last' = [NoOp EXCEPT !.op = "dirty", !.roi = box,
                                    !.issued = ds, !.dirty = DirtyTimes(ds)]
            /\ UNCHANGED <<shapeT, shapeC, labelImage, pending, nMut,
                           centersIn, lastCenter, unitVars, concVars, appVars>>

NextRetry ==
    \/ ToggleReadable
    \/ RequestCachedFeatures

SpecRetry == InitRetry /\ [][NextRetry]_vars

\* Concurrent requests on the cached features.  A request takes the valid
\* cells of its box when it starts and waits for the others; for each
\* missing cell it joins the computation that is to fill the cell, or
\* starts one.  A computation reads the inputs at some moment while it
\* runs.  A dirty notification drops the cells and cuts the computations
\* in flight for them off the cache: they still answer the requests that
\* wait for them, and store nothing.
Callers == {"a", "b"}

\* The computations a request for a missing cell can join.
JoinableComputations_None(cell) == {}

JoinableComputations(cell) ==
    { comp \in inflight : comp.cell = cell /\ comp.live }

\* The computations in flight after a dirty notification that dropped
\* the cells.
MarkStale_Keep(comps, cells) == comps

MarkStale(comps, cells) ==
    { IF comp.cell \in cells THEN [comp EXCEPT !.live = FALSE] ELSE comp :
        comp \in comps }

InitConc ==
    /\ shapeT \in 1..MaxT
    /\ shapeC \in 1..MaxC
    /\ shapeT * shapeC <= Cardinality(Callers)   \* a cell for each caller
    /\ rawImage = [cell \in Cells |-> 0]
    /\ labelImage = [cell \in Cells |-> 1]
    /\ cache = [cell \in Cells |-> <<>>]
    /\ pending = {}
    /\ nMut = 0
    /\ last = NoOp
    /\ centersIn = <<>>
    /\ lastCenter = NoOp
    /\ meta = <<>>
    /\ unit = NoOp
    /\ reqs = [caller \in Callers |-> <<>>]
    /\ inflight = {}
    /\ epoch = [cell \in Cells |-> 0]
    /\ wf = <<>>
    /\ shell = <<>>
    /\ gurobi = <<>>

\* A caller starts a request for a box.
ConcStart ==
    \E caller \in Callers, box \in FeatBoxes :
        /\ reqs[caller] = <<>>
        /\ LET asked == BoxCells(box.start, box.stop)
               missing == { cell \in asked : cache[cell] = <<>> }
               joined == { cell \in missing : JoinableComputations(cell) # {} }
               Input == opTimeStacker
               started == { [cell |-> cell, value |-> Input.at[cell],
                             tag |-> epoch[cell], live |-> TRUE,
                             waiters |-> {caller}] : cell \in missing \ joined }
           IN  /\ inflight' =
                      { IF comp.cell \in joined
                           /\ comp \in JoinableComputations(comp.cell)
                        THEN [comp EXCEPT !.waiters = @ \cup {caller}]
                        ELSE comp : comp \in inflight } \cup started
               /\ reqs' = [reqs EXCEPT ![caller] =
                      << [box |-> box,
                          since |-> [cell \in asked |-> epoch[cell]],
                          got |-> [cell \in asked |->
                                     IF cache[cell] = <<>> THEN <<>>
                                     ELSE << [value |-> cache[cell][1],
                                              tag |-> epoch[cell]] >>]] >>]
               /\ last' = [NoOp EXCEPT !.op = "start"]
               /\ UNCHANGED <<shapeT, shapeC, rawImage, labelImage, cache,
                              pending, nMut, centersIn, lastCenter,
                              unitVars, epoch, appVars>>

\* A computation ends: it stores its value unless a dirty notification
\* cut it off, and hands the value to the requests that wait for it.
ConcFinish ==
    \E comp \in inflight :
        LET Input == opTimeStacker
        IN  \E v \in {comp.value, Input.at[comp.cell]} :
              /\ cache' = IF comp.live
                          THEN [cache EXCEPT ![comp.cell] = <<v>>]
                          ELSE cache
              /\ reqs' = [caller \in Callers |->
                            IF caller \in comp.waiters
                            THEN << [reqs[caller][1] EXCEPT
                                       !.got[comp.cell] =
                                           << [value |-> v, tag |-> comp.tag] >>] >>
                            ELSE reqs[caller]]
              /\ inflight' = inflight \ {comp}
              /\ last' = [NoOp EXCEPT !.op = "finish"]
              /\ UNCHANGED <<shapeT, shapeC, rawImage, labelImage, pending,
                             nMut, centersIn, lastCenter, unitVars, epoch,
                                            appVars>>

\* A request returns once it has every cell of its box.
ConcReturn ==
    \E caller \in Callers :
        /\ reqs[caller] # <<>>
        /\ LET r == reqs[caller][1]
           IN  /\ \A cell \in DOMAIN r.got : r.got[cell] # <<>>
               /\ last' = [NoOp EXCEPT
                             !.op = "return", !.roi = r.box,
                             !.result = [cell \in DOMAIN r.got |->
                                           [value |-> r.got[cell][1].value,
                                            tag   |-> r.got[cell][1].tag,
                                            since |-> r.since[cell]]]]
        /\ reqs' = [reqs EXCEPT ![caller] = <<>>]
        /\ UNCHANGED <<shapeT, shapeC, rawImage, labelImage, cache, pending,
                       nMut, centersIn, lastCenter, unitVars, inflight, epoch,
                                      appVars>>

\* The dirty notification for a changed slab, processed by the cache in
\* one step.
ConcSetDirty ==
    \E cell \in pending :
        LET roi == SlabBox(cell)
            ds == RegionFeaturesDirty(roi.start, roi.stop)
            dropped == UNION { BoxBlockCells(ds[k].start, ds[k].stop) :
                                 k \in 1..Len(ds) }
        IN  /\ cache' = CacheDirtyAll(cache, ds)
            /\ inflight' = MarkStale(inflight, dropped)
            /\ epoch' = [d \in Cells |->
                           IF d \in dropped THEN epoch[d] + 1 ELSE epoch[d]]
            /\ pending' = pending \ TouchedCells(roi.start, roi.stop)
            /\ last' = [NoOp EXCEPT !.op = "dirty"]
            /\ UNCHANGED <<shapeT, shapeC, rawImage, labelImage, nMut,
                           centersIn, lastCenter, unitVars, reqs, appVars>>

NextConc ==
    \/ MutateInput
    \/ ConcSetDirty
    \/ ConcStart
    \/ ConcFinish
    \/ ConcReturn

SpecConc == InitConc /\ [][NextConc]_vars

\* --------------------------------------------- OpObjectCenterImage alone
Reverse(s) == [i \in 1..Len(s) |-> s[Len(s) + 1 - i]]

\* What RegionCenters returns for time index t: one record per channel.
\* Over the (t, channel) cells the table centersIn.a alternates with a
\* second table: a with its rows in reverse order, or an empty one.
CenterData ==
    [t \in 1..shapeT |->
        [c \in 1..shapeC |->
            [RegionCenter |->
                IF (t + c) % 2 = 0 THEN centersIn.a
                ELSE IF centersIn.b THEN Reverse(centersIn.a) ELSE <<>>]]]

InitCenter ==
    /\ shapeT \in 1..MaxT
    /\ shapeC \in 1..MaxC
    /\ shapeT * shapeC <= MaxCells
    /\ rawImage = [cell \in Cells |-> 0]
    /\ labelImage = [cell \in Cells |-> 0]
    /\ cache = [cell \in Cells |-> <<>>]
    /\ pending = {}
    /\ nMut = 0
    /\ last = NoOp
    /\ centersIn \in [a : Tables, b : BOOLEAN, roi : CenterImageBoxes]
    /\ lastCenter = NoOp
    /\ meta = <<>>
    /\ unit = NoOp
    /\ reqs = <<>>
    /\ inflight = {}
    /\ epoch = <<>>
    /\ wf = <<>>
    /\ shell = <<>>
    /\ gurobi = <<>>

\* The request for centersIn.roi on OpObjectCenterImage.Output.
CenterRequest ==
    /\ lastCenter.op = "none"
    /\ \E junk \in JunkChoices(centersIn.roi) :
        LET r == ObjectCenterImageExecute(cache, centersIn.roi,
                     [wired |-> FALSE, data |-> CenterData], junk)
        IN  lastCenter' = [op |-> "image", roi |-> centersIn.roi, ok |-> r.ok,
                           cause |-> r.cause,
                           result |-> IF r.ok
                                      THEN [result |-> r.result, junk |-> r.junk]
                                      ELSE <<>>,
                           issued |-> <<>>, dirty |-> {}]
    /\ UNCHANGED <<pipeVars, centersIn, unitVars, concVars, appVars>>

\* OpObjectCenterImage.propagateDirty: the boxes of Output set dirty.
\* slice(None) is the whole of Output; the roi is not looked at.
CenterPropagateDirty_Never(slot, roi) == {}

CenterPropagateDirty(slot, roi) ==
    IF slot = "RegionCenters"
    THEN { [start |-> [i \in 1..Len(ImageShape) |-> 0], stop |-> ImageShape] }
    ELSE {}

\* Time lists told dirty on RegionCenters.
DirtyTimeLists == { <<0>>, RangeSeq(0, shapeT) }

\* What a table may become: an object is lost, an object is found, or
\* nothing changes.
ChangedTables(a) ==
    {a} \cup { SubSeq(a, 1, Len(a) - 1) : k \in 1..(IF a = <<>> THEN 0 ELSE 1) }
        \cup { Append(a, p) : p \in IF Len(a) < MaxRows THEN CenterPoints ELSE {} }

\* The tables behind RegionCenters change and the slot tells a time list
\* dirty.
CenterTablesDirty ==
    /\ lastCenter.op = "none"
    /\ \E a \in ChangedTables(centersIn.a), roi \in DirtyTimeLists :
          /\ centersIn' = [centersIn EXCEPT !.a = a]
          /\ lastCenter' = [NoOp EXCEPT !.op = "dirty",
                              !.roi = [slot |-> "RegionCenters", roi |-> roi],
                              !.dirty = CenterPropagateDirty("RegionCenters", roi)]
    /\ UNCHANGED <<pipeVars, unitVars, concVars, appVars>>

\* The data of BinaryImage changes in one (t, c) slab and the slot tells a
\* box of that slab dirty.
CenterBinaryDirty ==
    /\ lastCenter.op = "none"
    /\ \E cell \in Cells, sp \in SpatialBoxes :
          LET roi == ImageBox(<<cell[1], cell[1] + 1>>, sp, <<cell[2], cell[2] + 1>>)
          IN  /\ labelImage' = [labelImage EXCEPT ![cell] = 1 - @]
              /\ lastCenter' = [NoOp EXCEPT !.op = "dirty",
                                  !.roi = [slot |-> "BinaryImage", roi |-> roi],
                                  !.dirty = CenterPropagateDirty("BinaryImage", roi)]
    /\ UNCHANGED <<shapeT, shapeC, rawImage, cache, pending, nMut, last,
                   centersIn, unitVars, concVars, appVars>>

NextCenter == CenterRequest \/ CenterTablesDirty \/ CenterBinaryDirty

SpecCenter == InitCenter /\ [][NextCenter]_vars

\* ------------------------------------------------- the operators on their own
\* Axis orders of the volumes connected to an operator.
AxisOrders ==
    { <<"t", "x", "y", "z", "c">>, <<"c", "z", "y", "x", "t">>,
      <<"t", "x", "y", "z">>, <<"x", "y", "z", "c">>,
      <<"x", "y", "z">>, <<"t", "x", "y", "c">> }

\* Extents an axis may have.
AxisExtents(a) ==
    IF a = "t" THEN 1..MaxT
    ELSE IF a = "c" THEN 1..MaxC
    ELSE IF a = "x" THEN {DimX - 1, DimX}
    ELSE IF a = "y" THEN {DimY}
    ELSE {DimZ}

RECURSIVE ShapesOf(_)
ShapesOf(axes) ==
    IF axes = <<>> THEN { <<>> }
    ELSE { <<e>> \o rest : e \in AxisExtents(Head(axes)),
                           rest \in ShapesOf(Tail(axes)) }

Metas ==
    UNION { { [axes |-> axes, shape |-> shape] : shape \in ShapesOf(axes) }
            : axes \in AxisOrders }

\* Metadata a slot may get while the other slot holds m: the same axes
\* with other extents, or the same shape under other axis tags.
MetaVariants(m) ==
    { v \in Metas : v.axes = m.axes \/ v.shape = m.shape }

\* What the two setupOutputs publish for the inputs raw and label, given
\* what was published before.
Published(raw, label, before) ==
    LET r3 == Features3dSetupOutputs(raw, label)
        rc == CachedSetupOutputs(raw, label)
    IN  [out3d      |-> IF r3.ok THEN <<r3.meta>> ELSE before.out3d,
         blockShape |-> IF rc.ok THEN <<rc.meta>> ELSE before.blockShape,
         ok3d       |-> r3.ok,
         okCached   |-> rc.ok]

Unpublished == [out3d |-> <<>>, blockShape |-> <<>>]

InitUnits ==
    /\ shapeT = 1
    /\ shapeC = 1
    /\ rawImage = [cell \in Cells |-> 0]
    /\ labelImage = [cell \in Cells |-> 0]
    /\ cache = [cell \in Cells |-> <<>>]
    /\ pending = {}
    /\ nMut = 0
    /\ last = NoOp
    /\ centersIn = <<>>
    /\ lastCenter = NoOp
    /\ \E raw \in Metas :
          \E label \in MetaVariants(raw) :
             LET pub == Published(raw, label, Unpublished)
             IN  meta = [raw |-> raw, label |-> label,
                         out3d |-> pub.out3d, blockShape |-> pub.blockShape]
    /\ unit = NoOp
    /\ reqs = <<>>
    /\ inflight = {}
    /\ epoch = <<>>
    /\ wf = <<>>
    /\ shell = <<>>
    /\ gurobi = <<>>

\* The metadata of one input changes; setupOutputs of OpRegionFeatures3d
\* and of OpCachedRegionFeatures run on the new inputs.
ChangeInputMeta ==
    \E slot \in Slots :
      \E m \in MetaVariants(IF slot = "RawImage" THEN meta.label ELSE meta.raw) :
        LET raw == IF slot = "RawImage" THEN m ELSE meta.raw
            label == IF slot = "LabelImage" THEN m ELSE meta.label
            pub == Published(raw, label, meta)
        IN  /\ m # (IF slot = "RawImage" THEN meta.raw ELSE meta.label)
            /\ meta' = [raw |-> raw, label |-> label,
                        out3d |-> pub.out3d, blockShape |-> pub.blockShape]
            /\ unit' = [NoOp EXCEPT !.op = "setup", !.roi = slot,
                                    !.ok = pub.ok3d, !.result = pub.okCached]
            /\ UNCHANGED <<pipeVars, centersIn, lastCenter, concVars, appVars>>

\* The index tuples of an array of the given shape.
RECURSIVE IndicesOf(_)
IndicesOf(shape) ==
    IF shape = <<>> THEN { <<>> }
    ELSE { <<i>> \o rest : i \in Range(0, Head(shape)),
                           rest \in IndicesOf(Tail(shape)) }

\* numpy.prod of a vector.
RECURSIVE Prod(_)
Prod(v) == IF v = <<>> THEN 1 ELSE Head(v) * Prod(Tail(v))

\* The result array execute is handed for a roi: stop - start elements
\* along each axis (none where stop is not above start), nothing written.
Destination(start, stop) ==
    [idx \in IndicesOf([i \in 1..Len(start) |->
                          IF stop[i] > start[i] THEN stop[i] - start[i] ELSE 0])
       |-> <<>>]

\* The request self.X[:] on an input slot of metadata m.
WholeVolume(slot, m) ==
    [slot |-> slot, start |-> [i \in 1..Len(m.shape) |-> 0], stop |-> m.shape]

\* OpRegionFeatures3d.execute for a roi on Output (metadata out), the
\* volumes of metadata m holding rawVolume and labelVolume: the requests
\* made on the inputs (reads) and the result array, or the exception.
Features3dRoiExecute_NoSizeCheck(m, out, roi, rawVolume, labelVolume) ==
    LET reads == << WholeVolume("RawVolume", m), WholeVolume("LabelVolume", m) >>
        result == Destination(roi.start, roi.stop)
    IN  IF ~(Len(roi.start) = Len(roi.stop) /\ Len(roi.stop) = Len(out.shape))
        THEN [ok |-> FALSE, cause |-> "AssertionError", reads |-> <<>>,
              result |-> <<>>]
        ELSE IF roi.start \notin DOMAIN result
        THEN [ok |-> FALSE, cause |-> "IndexError", reads |-> reads,
              result |-> <<>>]
        ELSE [ok |-> TRUE, cause |-> "", reads |-> reads,
              result |-> [result EXCEPT
                            ![roi.start] = <<_extract(rawVolume, labelVolume)>>]]

Features3dRoiExecute(m, out, roi, rawVolume, labelVolume) ==
    LET reads == << WholeVolume("RawVolume", m), WholeVolume("LabelVolume", m) >>
        result == Destination(roi.start, roi.stop)
    IN  IF ~(Len(roi.start) = Len(roi.stop) /\ Len(roi.stop) = Len(out.shape))
        THEN [ok |-> FALSE, cause |-> "AssertionError", reads |-> <<>>,
              result |-> <<>>]
        ELSE IF Prod([i \in 1..Len(roi.start) |-> roi.stop[i] - roi.start[i]]) # 1
        THEN [ok |-> FALSE, cause |-> "AssertionError", reads |-> reads,
              result |-> <<>>]
        ELSE IF roi.start \notin DOMAIN result
        THEN [ok |-> FALSE, cause |-> "IndexError", reads |-> reads,
              result |-> <<>>]
        ELSE [ok |-> TRUE, cause |-> "", reads |-> reads,
              result |-> [result EXCEPT
                            ![roi.start] = <<_extract(rawVolume, labelVolume)>>]]

\* Rois a caller may hand to execute on an output of the given rank: of
\* that rank or one more, well formed or not, inside the output or not.
RoisOfRank(rank) ==
    { [start |-> start, stop |-> stop] :
        start \in [1..rank -> 0..2], stop \in [1..rank -> 0..2] }
    \cup { [start |-> start, stop |-> stop] :
             start \in [1..(rank + 1) -> {0}], stop \in [1..(rank + 1) -> 0..1] }

\* Dirty boxes on a volume of metadata m: the whole of the t and c axes,
\* a spatial box of SpatialBoxes.
VolumeBoxes(m) ==
    { [start |-> [i \in 1..Len(m.axes) |->
                    IF m.axes[i] = "x" THEN sp.start[1]
                    ELSE IF m.axes[i] = "y" THEN sp.start[2]
                    ELSE IF m.axes[i] = "z" THEN sp.start[3] ELSE 0],
       stop  |-> [i \in 1..Len(m.axes) |->
                    IF m.axes[i] = "x" THEN sp.stop[1]
                    ELSE IF m.axes[i] = "y" THEN sp.stop[2]
                    ELSE IF m.axes[i] = "z" THEN sp.stop[3] ELSE m.shape[i]]]
        : sp \in SpatialBoxes }

\* OpRegionFeatures3d was set up with the inputs it has now.
Configured3d == Features3dSetupOutputs(meta.raw, meta.label).ok

\* A dirty notification on RawVolume or LabelVolume of OpRegionFeatures3d.
Dirty3d ==
    /\ Configured3d
    /\ \E slot \in {"RawVolume", "LabelVolume"}, box \in VolumeBoxes(meta.raw) :
          unit' = [NoOp EXCEPT !.op = "dirty3d", !.roi = box, !.cause = slot,
                     !.result = Features3dPropagateDirty(meta.raw.axes,
                                                         box.start, box.stop)]
    /\ UNCHANGED <<pipeVars, centersIn, lastCenter, meta, concVars, appVars>>

\* A request on Output of OpRegionFeatures3d reaches execute.
Execute3d ==
    /\ Configured3d
    /\ LET out == meta.out3d[1]
       IN  \E roi \in RoisOfRank(Len(out.shape)) :
              LET r == Features3dRoiExecute(meta.raw, out, roi,
                                            rawImage[<<0, 0>>],
                                            labelImage[<<0, 0>>])
              IN  unit' = [NoOp EXCEPT !.op = "execute3d", !.roi = roi,
                             !.ok = r.ok, !.cause = r.cause,
                             !.issued = r.reads, !.result = r.result]
    /\ UNCHANGED <<pipeVars, centersIn, lastCenter, meta, concVars, appVars>>

\* Metadata of the Input of OpAdaptTimeListRoi when the operators are
\* chained: the feature array, one element per (t,c) cell.
AdapterInputMeta ==
    [axes  |-> DropSpatial(meta.raw.axes, meta.raw.axes),
     shape |-> RegionFeaturesOutputShape(meta.raw)]

\* Non-empty boxes inside an array of metadata m.
RECURSIVE BoxesOf(_)
BoxesOf(shape) ==
    IF shape = <<>> THEN { [start |-> <<>>, stop |-> <<>>] }
    ELSE { [start |-> <<i[1]>> \o rest.start, stop |-> <<i[2]>> \o rest.stop] :
             i \in Intervals(Head(shape)), rest \in BoxesOf(Tail(shape)) }

\* A dirty notification on Input of OpAdaptTimeListRoi.
AdapterDirty ==
    /\ CachedSetupOutputs(meta.raw, meta.label).ok
    /\ AxisKeys(AdapterInputMeta) = {"t", "c"}
    /\ \E box \in BoxesOf(AdapterInputMeta.shape) :
          unit' = [NoOp EXCEPT !.op = "dirtyList", !.roi = box,
                     !.result = AdaptTimeListRoiPropagateDirty(
                                    AdapterInputMeta.axes, box.start, box.stop)]
    /\ UNCHANGED <<pipeVars, centersIn, lastCenter, meta, concVars, appVars>>

NextUnits ==
    \/ ChangeInputMeta
    \/ Dirty3d
    \/ Execute3d
    \/ AdapterDirty

SpecUnits == InitUnits /\ [][NextUnits]_vars

\* ------------------------------------------------------ OpObjectExtraction
\* OpObjectExtraction.default_features
default_features == <<"RegionCenter", "Coord<Minimum>", "Coord<Maximum>">>

SetOf(list) == { list[i] : i \in 1..Len(list) }

\* Feature names config.vigra_features may hold.
FeatureNames == SetOf(default_features) \cup {"Count", "Mean"}

\* config.vigra_features
Configs == SeqsUpTo(FeatureNames, MaxConfig)

\* list(S): the elements of the set, each once, in some order.
ListsOf(S) == { l \in [1..Cardinality(S) -> S] : SetOf(l) = S }

\* features = list(set(config.vigra_features).union(set(default_features)))
\* The lists it may yield.
BuildFeatureList_Concat(vigra_features) ==
    { vigra_features \o default_features }

BuildFeatureList(vigra_features) ==
    ListsOf(SetOf(vigra_features) \cup SetOf(default_features))

\* The operators that only route data, and their output slots.
CompositeOperators ==
    {"OpRegionFeatures", "OpWrappedRegionFeatures3d",
     "OpCachedRegionFeatures", "OpObjectExtraction"}

OutputSlots(op) ==
    IF op = "OpObjectExtraction"
    THEN {"LabelImage", "ObjectCenterImage", "RegionFeatures"}
    ELSE {"Output"}

\* execute of an operator that only routes data: assert False.
CompositeExecute_Silent(op, slot, subindex, roi, destination) ==
    [ok |-> TRUE, cause |-> "", destination |-> destination]

CompositeExecute(op, slot, subindex, roi, destination) ==
    [ok |-> FALSE, cause |-> "AssertionError", destination |-> destination]

\* After OpObjectExtraction.__init__: the feature list is built.
InitComposite ==
    /\ shapeT = 1
    /\ shapeC = 1
    /\ rawImage = [cell \in Cells |-> 0]
    /\ labelImage = [cell \in Cells |-> 0]
    /\ cache = [cell \in Cells |-> <<>>]
    /\ pending = {}
    /\ nMut = 0
    /\ last = NoOp
    /\ centersIn = <<>>
    /\ lastCenter = NoOp
    /\ \E vigra_features \in Configs :
          \E features \in BuildFeatureList(vigra_features) :
             meta = [vigra_features |-> vigra_features, features |-> features]
    /\ unit = NoOp
    /\ reqs = <<>>
    /\ inflight = {}
    /\ epoch = <<>>
    /\ wf = <<>>
    /\ shell = <<>>
    /\ gurobi = <<>>

\* Rois handed to execute: a time-index list, a box.
DirectRois ==
    { [rtype |-> "List", list |-> <<0>>, start |-> <<>>, stop |-> <<>>],
      [rtype |-> "SubRegion", list |-> <<>>, start |-> <<0, 0>>, stop |-> <<1, 1>>] }

\* execute called on an operator that only routes data; the destination
\* buffer holds something.
DirectExecute ==
    \E op \in CompositeOperators :
      \E slot \in OutputSlots(op), subindex \in { <<>>, <<0>> }, roi \in DirectRois :
        LET destination == <<7>>
            r == CompositeExecute(op, slot, subindex, roi, destination)
        IN  /\ unit' = [NoOp EXCEPT !.op = "execute", !.ok = r.ok, !.cause = r.cause,
                                    !.roi = [op |-> op, slot |-> slot,
                                             subindex |-> subindex, roi |-> roi,
                                             destination |-> destination],
                                    !.result = r.destination]
            /\ UNCHANGED <<pipeVars, centersIn, lastCenter, meta, concVars,
                           appVars>>

NextComposite == DirectExecute

SpecComposite == InitComposite /\ [][NextComposite]_vars

\* ------------------------------------------- chaingraph tracking workflow
\* self._applets, in the order they are appended.
_applets == << "dataSelectionApplet", "thresholdTwoLevelsApplet",
               "objectExtractionApplet", "trackingApplet", "dataExportApplet" >>

AppletNames == { _applets[i] : i \in DOMAIN _applets }

\* The dataset roles of a lane: 'Raw Data' and 'Prediction Maps'.
DatasetRoles == << "Raw Data", "Prediction Maps" >>

\* Lengths of the multi-lane slots of the applets after data selection:
\* no lane yet, or all of them.
SlotLengths == { 0, MaxLanes }

\* ChaingraphTrackingWorkflow._inputReady.  slot[sub][i + 1] tells whether
\* sub[i] is ready.
_inputReady(slot, nRoles) ==
    IF Len(slot) > 0
    THEN \A sub \in 1..Len(slot) : \A i \in 1..nRoles : slot[sub][i]
    ELSE FALSE

\* busy |= ... over the three applets the workflow asks.
WorkflowBusy_DataSelectionOnly(busyApplets) ==
    "dataSelectionApplet" \in busyApplets

WorkflowBusy(busyApplets) ==
    \/ "dataSelectionApplet" \in busyApplets
    \/ "dataExportApplet" \in busyApplets
    \/ "trackingApplet" \in busyApplets

\* The local variables of handleAppletStateUpdateRequested, for the
\* applet state w.
input_ready(w) ==
    /\ _inputReady(w.ImageGroup, Len(DatasetRoles))
    /\ "dataSelectionApplet" \notin w.busy

thresholding_ready(w) == input_ready(w) /\ w.CachedOutput > 0

features_ready_Unchained(w) == w.ComputedFeatureNames > 0

features_ready(w) == thresholding_ready(w) /\ w.ComputedFeatureNames > 0

tracking_ready(w) ==
    /\ features_ready(w)
    /\ w.EventsVector.len > 0
    /\ w.EventsVector.ready
    /\ w.Output.ready

\* What the workflow tells the shell in handleAppletStateUpdateRequested.
AppletStateUpdate(w) ==
    LET busy == WorkflowBusy(w.busy)
    IN  [called |-> TRUE,
         projectChanges |-> ~busy,
         enabled |->
            [a \in AppletNames |->
                CASE a = "dataSelectionApplet" -> ~busy
                  [] a = "thresholdTwoLevelsApplet" -> input_ready(w) /\ ~busy
                  [] a = "objectExtractionApplet" -> thresholding_ready(w) /\ ~busy
                  [] a = "trackingApplet" -> features_ready(w) /\ ~busy
                  [] a = "dataExportApplet" -> tracking_ready(w) /\ ~busy]]

\* The state of the applets when one of them fires its status signal:
\* the lanes of ImageGroup with the readiness of their roles, the applets
\* that are busy, and the slots of the later applets.
InitWorkflow ==
    /\ shapeT = 1
    /\ shapeC = 1
    /\ rawImage = [cell \in Cells |-> 0]
    /\ labelImage = [cell \in Cells |-> 0]
    /\ cache = [cell \in Cells |-> <<>>]
    /\ pending = {}
    /\ nMut = 0
    /\ last = NoOp
    /\ centersIn = <<>>
    /\ lastCenter = NoOp
    /\ meta = <<>>
    /\ unit = NoOp
    /\ reqs = <<>>
    /\ inflight = {}
    /\ epoch = <<>>
    /\ wf \in [ImageGroup : SeqsUpTo([DOMAIN DatasetRoles -> BOOLEAN], MaxLanes),
               busy : SUBSET AppletNames,
               CachedOutput : SlotLengths,
               ComputedFeatureNames : SlotLengths,
               EventsVector : [len : SlotLengths, ready : BOOLEAN],
               Output : [ready : BOOLEAN]]
    /\ shell = [called |-> FALSE, projectChanges |-> FALSE,
                enabled |-> [a \in AppletNames |-> FALSE]]
    /\ gurobi = <<>>

\* ChaingraphTrackingWorkflow.handleAppletStateUpdateRequested
handleAppletStateUpdateRequested ==
    /\ shell' = AppletStateUpdate(wf)
    /\ UNCHANGED <<pipeVars, centersIn, lastCenter, unitVars, concVars, wf, gurobi>>

NextWorkflow == handleAppletStateUpdateRequested

SpecWorkflow == InitWorkflow /\ [][NextWorkflow]_vars

\* ------------------------------------------- import of the gurobi wrapper
libraryname == "libgurobiwrapper.so"

dllname == "gurobiwrapper.dll"

\* paths: the directory of the module, then the empty path (the search
\* path of the loader).
paths == << "currentdir/", "" >>

\* The files handed to ctypes.cdll.LoadLibrary, in the order of the loop.
RECURSIVE LoadOrder(_)
LoadOrder(ps) ==
    IF ps = <<>> THEN <<>>
    ELSE << [path |-> Head(ps), name |-> libraryname],
            [path |-> Head(ps), name |-> dllname] >> \o LoadOrder(Tail(ps))

\* What LoadLibrary does: it returns the library or raises.  The except
\* clause names no exception class, so it also takes the exceptions that
\* are not errors of the loader.
LoadOutcomes == { "loaded", "OSError", "KeyboardInterrupt" }

\* One try / except of the loop, for the module state g.
TryLoad_ResetOnFailure(g, file, outcome) ==
    [g EXCEPT !.HAS_GUROBI = (outcome = "loaded"),
              !.tried = Append(@, [file |-> file, outcome |-> outcome])]

TryLoad(g, file, outcome) ==
    IF outcome = "loaded"
    THEN [g EXCEPT !.extlib = <<file>>, !.HAS_GUROBI = TRUE,
                   !.tried = Append(@, [file |-> file, outcome |-> outcome])]
    ELSE [g EXCEPT !.tried = Append(@, [file |-> file, outcome |-> outcome])]

InitImport ==
    /\ shapeT = 1
    /\ shapeC = 1
    /\ rawImage = [cell \in Cells |-> 0]
    /\ labelImage = [cell \in Cells |-> 0]
    /\ cache = [cell \in Cells |-> <<>>]
    /\ pending = {}
    /\ nMut = 0
    /\ last = NoOp
    /\ centersIn = <<>>
    /\ lastCenter = NoOp
    /\ meta = <<>>
    /\ unit = NoOp
    /\ reqs = <<>>
    /\ inflight = {}
    /\ epoch = <<>>
    /\ wf = <<>>
    /\ shell = <<>>
    /\ gurobi = [at |-> "loop", HAS_GUROBI |-> FALSE, extlib |-> <<>>,
                 tried |-> <<>>]

\* The next LoadLibrary call of the loop.
LoadLibrary ==
    /\ gurobi.at = "loop"
    /\ Len(gurobi.tried) < Len(LoadOrder(paths))
    /\ \E outcome \in LoadOutcomes :
          gurobi' = TryLoad(gurobi, LoadOrder(paths)[Len(gurobi.tried) + 1], outcome)
    /\ UNCHANGED <<pipeVars, centersIn, lastCenter, unitVars, concVars, wf, shell>>

\* if not HAS_GUROBI: raise RuntimeError
EndOfImport ==
    /\ gurobi.at = "loop"
    /\ Len(gurobi.tried) = Len(LoadOrder(paths))
    /\ gurobi' = [gurobi EXCEPT !.at = IF gurobi.HAS_GUROBI THEN "imported"
                                       ELSE "RuntimeError"]
    /\ UNCHANGED <<pipeVars, centersIn, lastCenter, unitVars, concVars, wf, shell>>

NextImport == LoadLibrary \/ EndOfImport

SpecImport == InitImport /\ [][NextImport]_vars

\* ======================================================= time-list adapter
\* The time indices a list asks for: the empty list asks for all of them.
RequestedTimes(roi) ==
    IF roi = <<>> THEN Range(0, shapeT) ELSE { roi[k] : k \in 1..Len(roi) }

\* C1: a request on OpAdaptTimeListRoi.Output with an empty time-index
\* list completes and returns a mapping whose keys are exactly 0..T-1.
C1_EmptyListReturnsEveryTime ==
    (last.op = "features" /\ last.roi = <<>>)
        => (last.ok /\ DOMAIN last.result = Range(0, shapeT))

\* C2: every box execute asks its Input for, for a requested time index t,
\* has start <= stop on every axis, covers [t, t+1) on the time axis and
\* the full extent on every other axis.
C2_IssuedBoxesCoverTheTimeSlab ==
    last.op = "features" =>
        \A k \in 1..Len(last.issued) :
            LET b == last.issued[k]
            IN  \A i \in 1..Len(FeatAxes) :
                    /\ b.start[i] <= b.stop[i]
                    /\ IF FeatAxes[i] = "t"
                       THEN b.start[i] = b.t /\ b.stop[i] = b.t + 1
                       ELSE b.start[i] = 0 /\ b.stop[i] = FeatShape[i]

\* C3: for any requested list, repeated indices included, the result has
\* one key per distinct requested t, and the value for t lists the cached
\* feature records of the cells (t, 0) .. (t, C-1) in channel order.
C3_OneRecordPerChannelInOrder ==
    last.op = "features" =>
        /\ last.ok
        /\ DOMAIN last.result = RequestedTimes(last.roi)
        /\ \A t \in RequestedTimes(last.roi) :
              /\ Len(last.result[t]) = shapeC
              /\ \A k \in 1..shapeC :
                    cache[<<t, k - 1>>] = <<last.result[t][k]>>

\* ==================================================== object-center image
\* The RegionCenter table fed for the cell (t, ch).
TableAt(cell) == CenterData[cell[1] + 1][cell[2] + 1].RegionCenter

\* The (t, ch) cells a box on the image addresses.
RoiCells(roi) ==
    Range(roi.start[1], roi.stop[1])
        \X Range(roi.start[Len(roi.start)], roi.stop[Len(roi.stop)])

\* C4: for a single object (one row besides row 0, in one table) whose
\* center and six axis neighbours lie inside the requested roi, execute
\* sets exactly those 7 voxels to 255 and leaves every other voxel 0.
C4_SingleObjectSevenVoxels ==
    lastCenter.op = "image" =>
        \A cell \in Cells :
            LET table == AsUint32Table(TableAt(cell))
                cross == CrossCoords(cell[1], table[2], cell[2])
            IN  ( /\ Len(table) = 2
                  /\ \A other \in Cells \ {cell} : Len(TableAt(other)) <= 1
                  /\ \A c \in cross : contained_in_subregion(lastCenter.roi, c) )
                => /\ lastCenter.ok
                   /\ lastCenter.result.result
                        = { make_key(lastCenter.roi, c) : c \in cross }
                   /\ Cardinality(lastCenter.result.result) = 7
                   /\ lastCenter.result.junk = {}

\* The box sub lies inside the box roi.
SubBox(sub, roi) ==
    \A i \in 1..Len(roi.start) :
        roi.start[i] <= sub.start[i] /\ sub.stop[i] <= roi.stop[i]

\* A result of a request for roi, cut down to the box sub.
Restricted(keys, roi, sub) ==
    { [i \in 1..Len(k) |-> k[i] + roi.start[i] - sub.start[i]] :
        k \in { q \in keys :
                  contained_in_subregion(sub,
                      [i \in 1..Len(q) |-> q[i] + roi.start[i]]) } }

\* C5: execute writes no marker outside the requested roi, and for every
\* roi R and box R' inside R the result of requesting R' is the result of
\* requesting R cut down to R'.
C5_SubRoiIsRestriction ==
    lastCenter.op = "image" =>
        /\ lastCenter.ok
        /\ \A k \in lastCenter.result.result :
              \A i \in 1..Len(k) :
                  0 <= k[i] /\ k[i] < lastCenter.roi.stop[i] - lastCenter.roi.start[i]
        /\ \A sub \in CenterImageBoxes :
              SubBox(sub, lastCenter.roi) =>
                  LET r == ObjectCenterImageExecute(cache, sub,
                               [wired |-> FALSE, data |-> CenterData], {})
                  IN  /\ r.ok
                      /\ r.result = Restricted(lastCenter.result.result,
                                               lastCenter.roi, sub)

\* The fed tables with row 0 of every non-empty table replaced by p.
CenterDataRow0(p) ==
    [t \in 1..shapeT |->
        [c \in 1..shapeC |->
            [RegionCenter |->
                IF Len(CenterData[t][c].RegionCenter) > 0
                THEN [CenterData[t][c].RegionCenter EXCEPT ![1] = p]
                ELSE CenterData[t][c].RegionCenter]]]

Row0Points == CenterPoints \cup { <<0, 0, 0>>, <<2, 2, 2>>, <<4, 4, 4>> }

\* C6: row 0 of a RegionCenter table never contributes a marker: what
\* execute does is the same whatever coordinate row 0 holds.
C6_Row0NeverMarks ==
    lastCenter.op = "image" =>
        \A p \in Row0Points :
            LET r == ObjectCenterImageExecute(cache, lastCenter.roi,
                         [wired |-> FALSE, data |-> CenterDataRow0(p)], {})
            IN  /\ r.ok = lastCenter.ok
                /\ r.ok => /\ r.result = lastCenter.result.result
                           /\ r.junk = lastCenter.result.junk

\* C6 witness: a request completed with markers, and the coordinate of
\* row 0 of an addressed table lies inside the roi and is not marked.
C6_Witness ==
    /\ lastCenter.op = "image"
    /\ lastCenter.ok
    /\ lastCenter.result.result # {}
    /\ \E cell \in RoiCells(lastCenter.roi) :
          LET table == AsUint32Table(TableAt(cell))
              c0 == <<cell[1], table[1][1], table[1][2], table[1][3], cell[2]>>
          IN  /\ Len(table) >= 2
              /\ contained_in_subregion(lastCenter.roi, c0)
              /\ make_key(lastCenter.roi, c0) \notin lastCenter.result.result

\* C7: when the RegionCenter list of the addressed (t, channel) is empty,
\* execute completes and every voxel of the result is 0.
C7_EmptyListAllZero ==
    ( /\ lastCenter.op = "image"
      /\ \E cell \in Cells :
            /\ RoiCells(lastCenter.roi) = {cell}
            /\ TableAt(cell) = <<>> )
    => /\ lastCenter.ok
       /\ lastCenter.result.result = {}
       /\ lastCenter.result.junk = {}

\* C7 witness: a completed request for one (t, channel) whose list is
\* empty, while another cell of the input holds objects.
C7_Witness ==
    /\ lastCenter.op = "image"
    /\ lastCenter.ok
    /\ \E cell \in Cells :
          /\ RoiCells(lastCenter.roi) = {cell}
          /\ TableAt(cell) = <<>>
          /\ \E other \in Cells : Len(TableAt(other)) = MaxRows

\* ============================================================ the pipeline
ColdCache == [cell \in Cells |-> <<>>]

\* C8: with the input content fixed, what a request returns does not
\* depend on the requests and notifications that came before: it is what
\* the same request returns on a pipeline that was never used.
C8_Determinism ==
    /\ last.op = "features" =>
          LET r == AdaptTimeListRoiExecute(ColdCache, last.roi)
          IN  r.ok = last.ok /\ (r.ok => r.result = last.result)
    /\ last.op = "cached" =>
          LET r == CachedExecute(ColdCache, last.roi.start, last.roi.stop)
          IN  r.ok = last.ok /\ (r.ok => r.array = last.result)
    /\ last.op = "image" =>
          LET r == ObjectCenterImageExecute(ColdCache, last.roi,
                       [wired |-> TRUE, data |-> <<>>], {})
          IN  /\ r.ok = last.ok
              /\ r.ok => last.result = [result |-> r.result, junk |-> r.junk]

\* C8 witness: an image request that completed with markers while the
\* cache holds a cell of a later time step from an earlier request.
C8_Witness ==
    /\ last.op = "image"
    /\ last.ok
    /\ last.result.result # {}
    /\ \E cell \in Cells : cell[1] >= 1 /\ cache[cell] # <<>>

\* C9: a dirty notification for a box R on an input image drops every
\* cached cell whose slab overlaps R, leaves every other cell as it was,
\* and marks RegionFeatures dirty for exactly the time indices of R.
C9_DirtyConservative ==
    [][ last'.op = "dirty" =>
          /\ \A cell \in Cells :
                IF cell \in TouchedCells(last'.roi.start, last'.roi.stop)
                THEN cache'[cell] = <<>>
                ELSE cache'[cell] = cache[cell]
          /\ last'.dirty = Range(last'.roi.start[ImageT], last'.roi.stop[ImageT])
      ]_vars

\* C9 witness: after a notification for a box that covers part of a slab
\* only, a cell outside the box is still cached.
C9_Witness ==
    /\ last.op = "dirty"
    /\ last.roi.start[2] > 0
    /\ \E cell \in Cells \ TouchedCells(last.roi.start, last.roi.stop) :
          cache[cell] # <<>>
    /\ \E cell \in TouchedCells(last.roi.start, last.roi.stop) :
          cell[1] # cell[2]

\* C10: a request for cells whose input changes have all been notified
\* returns, for each such cell, what OpRegionFeatures computes from the
\* current inputs.
C10_CacheMatchesUncached ==
    (last.op = "cached" /\ last.ok) =>
        LET Output == opTimeStacker
        IN  \A cell \in BoxCells(last.roi.start, last.roi.stop) :
                cell \notin pending =>
                    last.result.at[<<cell[1] - last.roi.start[1],
                                     cell[2] - last.roi.start[2]>>]
                        = Output.at[cell]

\* C10 witness: a request that returned a cell whose input has changed
\* and been notified since the start.
C10_Witness ==
    /\ last.op = "cached"
    /\ last.ok
    /\ pending = {}
    /\ \E cell \in BoxCells(last.roi.start, last.roi.stop) :
          rawImage[cell] = 1 \/ labelImage[cell] = 1

\* ================================================ the operators on their own
\* The positions of the t and c axes, in axis order.
TCPositions(axes) ==
    SelectSeq([i \in 1..Len(axes) |-> i], LAMBDA i : axes[i] \in {"t", "c"})

\* The box with its spatial entries replaced by those of sp.
WithSpatial(axes, box, sp) ==
    [start |-> [i \in 1..Len(axes) |->
                    IF axes[i] = "x" THEN sp.start[1]
                    ELSE IF axes[i] = "y" THEN sp.start[2]
                    ELSE IF axes[i] = "z" THEN sp.start[3] ELSE box.start[i]],
     stop  |-> [i \in 1..Len(axes) |->
                    IF axes[i] = "x" THEN sp.stop[1]
                    ELSE IF axes[i] = "y" THEN sp.stop[2]
                    ELSE IF axes[i] = "z" THEN sp.stop[3] ELSE box.stop[i]]]

\* C11: OpRegionFeatures3d.propagateDirty, for a dirty box on RawVolume or
\* on LabelVolume, sets Output dirty with the start and stop entries of the
\* t and c axes, unchanged and in axis order, and nothing of x, y, z: the
\* same roi wherever the box lies in space.
C11_SpatialEntriesDropped ==
    unit.op = "dirty3d" =>
        LET axes == meta.raw.axes
            pos == TCPositions(axes)
        IN  /\ unit.result.start = [k \in 1..Len(pos) |-> unit.roi.start[pos[k]]]
            /\ unit.result.stop = [k \in 1..Len(pos) |-> unit.roi.stop[pos[k]]]
            /\ \A sp \in ClippedSpatialBoxes :
                  LET b == WithSpatial(axes, unit.roi, sp)
                  IN  Features3dPropagateDirty(axes, b.start, b.stop) = unit.result

\* C11 witness: a notification on LabelVolume for a box that covers part
\* of the volume, the volume having a c axis before its t axis.
C11_Witness ==
    /\ unit.op = "dirty3d"
    /\ unit.cause = "LabelVolume"
    /\ \E i \in 1..Len(unit.roi.start) : unit.roi.start[i] > 0
    /\ meta.raw.axes[1] = "c"
    /\ Len(unit.result.start) = 2

\* C12: OpAdaptTimeListRoi.propagateDirty, for a dirty box on Input with
\* time extent [a, b), sets Output dirty with the list a, a+1, .., b-1,
\* whatever the extent of the box on the other axis.
C12_DirtyListIsTimeExtent ==
    unit.op = "dirtyList" =>
        LET ti == CHOOSE i \in 1..Len(AdapterInputMeta.axes) :
                      AdapterInputMeta.axes[i] = "t"
            a == unit.roi.start[ti]
            b == unit.roi.stop[ti]
        IN  /\ Len(unit.result) = b - a
            /\ \A k \in 1..(b - a) : unit.result[k] = a + k - 1

\* C12 witness: a box of several time steps and part of the channels, on
\* an input whose first axis is c.
C12_Witness ==
    /\ unit.op = "dirtyList"
    /\ AdapterInputMeta.axes = <<"c", "t">>
    /\ Len(unit.result) >= 2
    /\ unit.roi.stop[1] - unit.roi.start[1] = 1
    /\ AdapterInputMeta.shape[1] >= 2

\* Raw and label metadata disagree.
Disagree(raw, label) == raw.shape # label.shape \/ raw.axes # label.axes

\* A volume OpRegionFeatures3d does not take: a t or c axis of extent
\* other than 1, or axes besides t and c that are not exactly x, y, z.
NotOneSlab(m) ==
    \/ \E i \in 1..Len(m.axes) : m.axes[i] \in {"t", "c"} /\ m.shape[i] # 1
    \/ { m.axes[i] : i \in { j \in 1..Len(m.axes) : m.axes[j] \notin {"t", "c"} } }
          # {"x", "y", "z"}

\* C13: when raw and label shapes or axis tags differ, setupOutputs of
\* OpRegionFeatures3d and of OpCachedRegionFeatures raise and publish
\* nothing; OpRegionFeatures3d.setupOutputs also raises, and publishes
\* nothing, for a t or c extent other than 1 and for axes besides t and c
\* that are not exactly x, y, z.
C13_SetupRaisesOnMismatch ==
    [][ /\ (unit.op = "none" /\ Disagree(meta.raw, meta.label))
              => (meta.out3d = <<>> /\ meta.blockShape = <<>>)
        /\ (unit.op = "none" /\ NotOneSlab(meta.label)) => meta.out3d = <<>>
        /\ unit'.op = "setup" =>
              /\ Disagree(meta'.raw, meta'.label) =>
                    /\ ~unit'.ok
                    /\ ~unit'.result
                    /\ meta'.out3d = meta.out3d
                    /\ meta'.blockShape = meta.blockShape
              /\ (NotOneSlab(meta'.raw) \/ NotOneSlab(meta'.label)) =>
                    /\ ~unit'.ok
                    /\ meta'.out3d = meta.out3d
      ]_vars

\* C13 witness: the setup just failed for inputs of equal shape and
\* different axis tags, and the metadata published before is still there.
C13_Witness ==
    /\ unit.op = "setup"
    /\ ~unit.ok
    /\ ~unit.result
    /\ meta.raw.shape = meta.label.shape
    /\ meta.raw.axes # meta.label.axes
    /\ meta.out3d # <<>>
    /\ meta.blockShape # <<>>

\* C14: execute called directly on OpRegionFeatures, on
\* OpWrappedRegionFeatures3d, on OpCachedRegionFeatures or on
\* OpObjectExtraction fails, for every slot, subindex and roi, and leaves
\* the destination buffer as it was.
C14_DirectExecuteFails ==
    unit.op = "execute" =>
        /\ ~unit.ok
        /\ unit.result = unit.roi.destination

\* C14 witness: execute was called for the RegionFeatures slot of
\* OpObjectExtraction with a list roi and a buffer that holds something.
C14_Witness ==
    /\ unit.op = "execute"
    /\ unit.roi.op = "OpObjectExtraction"
    /\ unit.roi.slot = "RegionFeatures"
    /\ unit.roi.roi.rtype = "List"
    /\ unit.roi.destination # <<>>
    /\ unit.cause = "AssertionError"

\* The number of places of a list that hold the name.
Occurrences(list, name) == Cardinality({ i \in 1..Len(list) : list[i] = name })

\* C15: whatever config.vigra_features holds, the feature list handed to
\* the region-feature pipeline holds 'RegionCenter', 'Coord<Minimum>',
\* 'Coord<Maximum>' and every configured name, each exactly once, and no
\* other name.
C15_FeatureListIsUnion ==
    /\ \A name \in {"RegionCenter", "Coord<Minimum>", "Coord<Maximum>"} :
          Occurrences(meta.features, name) = 1
    /\ \A i \in 1..Len(meta.vigra_features) :
          Occurrences(meta.features, meta.vigra_features[i]) = 1
    /\ \A i \in 1..Len(meta.features) :
          \/ meta.features[i] \in {"RegionCenter", "Coord<Minimum>", "Coord<Maximum>"}
          \/ \E j \in 1..Len(meta.vigra_features) :
                meta.vigra_features[j] = meta.features[i]

\* C15 witness: the configuration names a default feature and another
\* feature twice.
C15_Witness ==
    /\ Len(meta.vigra_features) = MaxConfig
    /\ \E i, j \in 1..Len(meta.vigra_features) :
          /\ i # j
          /\ meta.vigra_features[i] = meta.vigra_features[j]
          /\ meta.vigra_features[i] = "Count"
    /\ Len(meta.features) = 4

\* ===================================================== cached region features
\* C16: element (i, j) of OpRegionFeatures.Output is the result of the 3d
\* operator on the raw slab and the label slab of time i and channel j,
\* for every i and j: slabs of the same cell are paired and stacking
\* keeps the time and channel indices.
C16_CellsPairedInOrder ==
    LET Output == opTimeStacker
    IN  /\ Output.shape = <<shapeT, shapeC>>
        /\ DOMAIN Output.at = Cells
        /\ \A cell \in Cells :
              Output.at[cell] = _extract(rawImage[cell], labelImage[cell])

\* C16 witness: a request was answered for a cell off the diagonal whose
\* label slab differs from the others, on an input of two times and two
\* channels.
C16_Witness ==
    /\ last.op = "cached"
    /\ last.ok
    /\ shapeT >= 2 /\ shapeC >= 2
    /\ \E cell \in BoxCells(last.roi.start, last.roi.stop) :
          /\ cell[1] # cell[2]
          /\ labelImage[cell] = 1
          /\ \A other \in Cells \ {cell} : labelImage[other] = 0

\* C17: when the upstream computation of an uncached cell raises during
\* a request on the cached features, the request fails and returns
\* nothing, and the cell stays not valid with nothing stored; a later
\* request for it asks the upstream computation again: it fails as long
\* as the computation raises and returns, and stores, what the
\* computation yields once it does not.
C17_FailureLeavesCellUncached ==
    [][ last'.op = "cached" =>
          LET asked == { cell \in BoxCells(last'.roi.start, last'.roi.stop) :
                           cache[cell] = <<>> }
              failing == { cell \in asked : rawImage[cell] = Unreadable }
          IN  /\ failing # {} =>
                    /\ ~last'.ok
                    /\ last'.result = <<>>
                    /\ \A cell \in failing : cache'[cell] = <<>>
              /\ failing = {} =>
                    /\ last'.ok
                    /\ \A cell \in asked :
                          cache'[cell] = <<_extract(rawImage[cell], labelImage[cell])>>
      ]_vars

\* C17 witness: a request for one cell just failed on a slab that cannot
\* be read, the cell holds nothing, and another cell is valid.
C17_Witness ==
    /\ last.op = "cached"
    /\ ~last.ok
    /\ \E cell \in Cells :
          /\ BoxCells(last.roi.start, last.roi.stop) = {cell}
          /\ rawImage[cell] = Unreadable
          /\ cache[cell] = <<>>
    /\ \E cell \in Cells : cache[cell] # <<>>

\* The computations in flight for a cell that are to fill it.
LiveFor(comps, cell) == { comp \in comps : comp.cell = cell /\ comp.live }

\* What a complete upstream computation for one cell can yield.
CompleteValues == { _extract(r, l) : r \in {0, 1}, l \in {0, 1} }

\* C18: under every interleaving of two callers' requests for the same
\* and for different cells, of input changes and dirty notifications, a
\* computation that is to fill a cell starts only while the cell is not
\* valid and no other such computation runs for it, so there is never
\* more than one and none for a valid cell; a valid cell holds a value a
\* complete upstream computation yields (that of the current inputs
\* unless a changed slab awaits its notification); and a request returns
\* every cell of its box, each with such a value.
C18_OneComputationPerCell ==
    [][ /\ \A cell \in Cells :
              /\ Cardinality(LiveFor(inflight', cell))
                    > Cardinality(LiveFor(inflight, cell))
                 => cache[cell] = <<>> /\ LiveFor(inflight, cell) = {}
              /\ Cardinality(LiveFor(inflight', cell)) <= 1
              /\ cache'[cell] # <<>> =>
                    /\ LiveFor(inflight', cell) = {}
                    /\ cache'[cell][1] \in CompleteValues
                    /\ cell \notin pending' =>
                          cache'[cell][1] = _extract(rawImage'[cell],
                                                     labelImage'[cell])
        /\ \A caller \in Callers :
              reqs[caller] # <<>> /\ reqs'[caller] = <<>> =>
                 /\ DOMAIN last'.result
                       = BoxCells(reqs[caller][1].box.start,
                                  reqs[caller][1].box.stop)
                 /\ \A cell \in DOMAIN last'.result :
                       last'.result[cell].value \in CompleteValues
      ]_vars

\* C18 witness: both callers wait for one computation of a cell, and one
\* of them also for the computation of another cell.
C18_Witness ==
    \E comp \in inflight, other \in inflight :
        /\ comp.live /\ comp.waiters = Callers
        /\ other.live /\ other.cell # comp.cell

C20_BlockShapeAllOnes ==
    ~Disagree(meta.raw, meta.label) =>
        /\ meta.blockShape # <<>>
        /\ LET shape == meta.blockShape[1]
               positions == TCPositions(meta.raw.axes)
               cells == IndicesOf([k \in 1..Len(positions) |->
                                     meta.raw.shape[positions[k]]])
           IN  /\ Len(shape) = Len(positions)
               /\ \A i \in 1..Len(shape) : shape[i] = 1
               /\ \A cell \in cells :
                     { d \in cells : BlockIn(shape, d) = BlockIn(shape, cell) }
                        = {cell}

\* C20 witness: setupOutputs has just run again after the shape of an
\* input changed, on images with two time steps and a channel axis.
C20_Witness ==
    /\ unit.op = "setup"
    /\ unit.result = TRUE
    /\ ~Disagree(meta.raw, meta.label)
    /\ meta.blockShape = << <<1, 1>> >>
    /\ \E i \in 1..Len(meta.raw.axes) :
          meta.raw.axes[i] = "t" /\ meta.raw.shape[i] >= 2

C22_EveryChannelOwnTable ==
    ( /\ lastCenter.op = "image"
      /\ lastCenter.roi.stop[1] - lastCenter.roi.start[1] > 1
      /\ lastCenter.roi.stop[5] - lastCenter.roi.start[5] > 1 )
    => /\ lastCenter.ok
       /\ lastCenter.result.result
            = UNION { PaintedKeys(lastCenter.roi, cell[1], cell[2],
                          DropBackgroundRow(AsUint32Table(TableAt(cell))).rows)
                        : cell \in RoiCells(lastCenter.roi) }

\* C23: propagateDirty of OpObjectCenterImage sets the whole of Output
\* dirty on a notification from RegionCenters, whatever the time list, and
\* sets nothing dirty on a notification from BinaryImage; a box of Output
\* whose request gives another result (or another failure) after the
\* change than before it lies inside a box set dirty.
C23_CenterDirtyCoversChanges ==
    [][ lastCenter'.op = "dirty" =>
          LET whole == [start |-> <<0, 0, 0, 0, 0>>, stop |-> ImageShape]
              before == ObjectCenterImageExecute(cache, centersIn.roi,
                            [wired |-> FALSE, data |-> CenterData], {})
              after == ObjectCenterImageExecute(cache', centersIn.roi,
                            [wired |-> FALSE, data |-> CenterData'], {})
          IN  /\ lastCenter'.roi.slot = "RegionCenters"
                    => lastCenter'.dirty = {whole}
              /\ lastCenter'.roi.slot = "BinaryImage"
                    => lastCenter'.dirty = {}
              /\ before # after =>
                    \E box \in lastCenter'.dirty : SubBox(centersIn.roi, box)
      ]_vars

\* C23 witness: on an image of two time steps RegionCenters has told the
\* time list [0] dirty, and the whole of Output is dirty.
C23_Witness ==
    /\ lastCenter.op = "dirty"
    /\ lastCenter.roi.slot = "RegionCenters"
    /\ lastCenter.roi.roi = <<0>>
    /\ shapeT = 2
    /\ lastCenter.dirty = { [start |-> <<0, 0, 0, 0, 0>>, stop |-> ImageShape] }
    /\ Len(centersIn.a) = MaxRows

\* ==================================================== tracking workflow
\* C24: after handleAppletStateUpdateRequested an applet is enabled only
\* if every applet before it in the order data selection, thresholding,
\* object extraction, tracking, data export is enabled.
C24_EnablementDownwardClosed ==
    shell.called =>
        \A i \in DOMAIN _applets : \A j \in 1..(i - 1) :
            shell.enabled[_applets[i]] => shell.enabled[_applets[j]]

\* C24 witness: the update has enabled the first three applets and left
\* tracking and data export disabled.
C24_Witness ==
    /\ shell.called
    /\ shell.enabled["objectExtractionApplet"]
    /\ ~shell.enabled["trackingApplet"]
    /\ Len(wf.ImageGroup) = MaxLanes

\* C25: after handleAppletStateUpdateRequested, project changes are
\* enabled exactly when none of the data selection, tracking and data
\* export applets is busy; when one of them is busy all five applets are
\* disabled; and the thresholding applet is enabled only when there is a
\* lane and both roles of every lane are ready.
C25_BusyDisablesAll ==
    shell.called =>
        LET busy == {"dataSelectionApplet", "trackingApplet", "dataExportApplet"}
                        \cap wf.busy # {}
        IN  /\ shell.projectChanges <=> ~busy
            /\ busy => \A a \in AppletNames : ~shell.enabled[a]
            /\ shell.enabled["thresholdTwoLevelsApplet"] =>
                  /\ Len(wf.ImageGroup) >= 1
                  /\ \A lane \in DOMAIN wf.ImageGroup :
                        \A role \in DOMAIN DatasetRoles : wf.ImageGroup[lane][role]

\* C25 witness: the update was made while the data export applet alone
\* was busy, over lanes that are ready.
C25_Witness ==
    /\ shell.called
    /\ wf.busy = {"dataExportApplet"}
    /\ Len(wf.ImageGroup) = MaxLanes
    /\ \A lane \in DOMAIN wf.ImageGroup :
          \A role \in DOMAIN DatasetRoles : wf.ImageGroup[lane][role]
    /\ ~shell.projectChanges

\* ======================================================= gurobi wrapper
\* C26: the import tries the library name and the dll name under every
\* path, in order; HAS_GUROBI is true exactly when one of the loads made
\* so far succeeded, so a later failure never resets it; the import ends
\* only after every candidate was tried, and it ends in RuntimeError
\* exactly when every load failed.
C26_RuntimeErrorIffNoLoad ==
    LET loaded == \E i \in DOMAIN gurobi.tried :
                      gurobi.tried[i].outcome = "loaded"
    IN  /\ \A i \in DOMAIN gurobi.tried :
              gurobi.tried[i].file
                = [path |-> paths[(i + 1) \div 2],
                   name |-> IF i % 2 = 1 THEN libraryname ELSE dllname]
        /\ gurobi.HAS_GUROBI <=> loaded
        /\ gurobi.at # "loop" => Len(gurobi.tried) = 2 * Len(paths)
        /\ gurobi.at = "RuntimeError" => ~loaded
        /\ gurobi.at = "imported" => loaded

\* C26 witness: the import succeeded although the loads that followed the
\* first successful one failed.
C26_Witness ==
    /\ gurobi.at = "imported"
    /\ gurobi.tried[1].outcome = "loaded"
    /\ \A i \in 2..Len(gurobi.tried) : gurobi.tried[i].outcome # "loaded"

====
